---- MODULE Spec2Model ----
(***************************************************************************)
(* audit-export: src/src/index.js.                                         *)
(*                                                                         *)
(* The program reads the JSON output of `npm audit --json` from stdin,     *)
(* normalises either schema into a list of vulnerability records, counts   *)
(* them and writes a rendered HTML report to <folder>/<file>.              *)
(*                                                                         *)
(* JavaScript values are tagged records:                                   *)
(*   undefined, null, string, number, boolean, array (items), object       *)
(*   (props: the own properties as a sequence of key/value pairs in        *)
(*   property enumeration order: the order of `for ... in`).               *)
(* An abrupt completion (a thrown error) is the tagged record "throw".     *)
(***************************************************************************)
EXTENDS Integers, Sequences, FiniteSets, TLC

VARIABLES
    argv,          \* process.argv from index 2 on: the user's arguments
    platform,      \* os.platform()
    folders,       \* the folders that exist on the file system
    now,           \* the local clock read by getCurrentDate
    stdinText,     \* the whole text the pipe delivers, as a sequence of characters
    jsonValue,     \* what JSON.parse yields on stdinText: a value or a SyntaxError
    stdin,         \* the chunks not yet delivered by the 'data' event
    inputData,     \* let inputData (index.js:187)
    pc,            \* "reading", "access" (fs.access pending), "write" (fs.writeFile pending), "exited"
    finalPath,     \* the path captured by the fs.access callback
    templateData,  \* the payload handed to ejs.render (undefined before)
    pendingWrite,  \* the arguments of the fs.writeFile call in flight
    files,         \* the files written: path -> content, as a set of records
    console,       \* the lines printed by console.log / console.error, in order
    uncaught,      \* the error that ended the process as an uncaught exception
    exitCode,      \* the exit code of the process (-1 while it runs)
    log            \* the steps taken so far, in order

vars == <<argv, platform, folders, now, stdinText, jsonValue, stdin, inputData, pc,
          finalPath, templateData, pendingWrite, files, console, uncaught, exitCode, log>>

----------------------------------------------------------------------------
(* JavaScript values *)

Undefined == [type |-> "undefined"]
Null == [type |-> "null"]
Str(s) == [type |-> "string", value |-> s]
Num(n) == [type |-> "number", value |-> n]
Bool(b) == [type |-> "boolean", value |-> b]
Arr(items) == [type |-> "array", items |-> items]
Prop(k, v) == [key |-> k, value |-> v]
Obj(props) == [type |-> "object", props |-> props]
Throw(e) == [type |-> "throw", error |-> e]

IsThrow(v) == v.type = "throw"

\* ToBoolean: the test of `if (x)`, `x || y`, `x ? a : b` and filter(v => v).
Truthy(v) ==
    CASE v.type = "undefined" -> FALSE
      [] v.type = "null" -> FALSE
      [] v.type = "string" -> v.value # ""
      [] v.type = "number" -> v.value # 0
      [] v.type = "boolean" -> v.value
      [] OTHER -> TRUE

\* a || b
Or(a, b) == IF Truthy(a) THEN a ELSE b

Digits == <<"0", "1", "2", "3", "4", "5", "6", "7", "8", "9">>

RECURSIVE NumberToString(_)
\* Number.prototype.toString for a natural number.
NumberToString(n) ==
    IF n < 10 THEN Digits[n + 1]
    ELSE NumberToString(n \div 10) \o Digits[(n % 10) + 1]

HasKey(o, k) == o.type = "object" /\ \E i \in 1..Len(o.props) : o.props[i].key = k

\* The property read o.k (o[k]) for the keys this program reads. null and
\* undefined have no properties (TypeError); an array has its indices; the
\* primitives' prototypes define none of the keys read here.
Get(o, k) ==
    CASE o.type \in {"null", "undefined"} -> Throw("TypeError")
      [] o.type = "object" ->
            IF HasKey(o, k)
            THEN o.props[CHOOSE i \in 1..Len(o.props) : o.props[i].key = k].value
            ELSE Undefined
      [] o.type = "array" ->
            IF \E i \in 1..Len(o.items) : NumberToString(i - 1) = k
            THEN o.items[CHOOSE i \in 1..Len(o.items) : NumberToString(i - 1) = k]
            ELSE Undefined
      [] OTHER -> Undefined

\* The keys `for (const k in o)` visits, in order. (A string would enumerate
\* its indices; no string is enumerated in the inputs modelled.)
ForInKeys(o) ==
    CASE o.type = "object" -> [i \in 1..Len(o.props) |-> o.props[i].key]
      [] o.type = "array" -> [i \in 1..Len(o.items) |-> NumberToString(i - 1)]
      [] OTHER -> <<>>

\* The spread `...x` of a call's arguments: the elements of an array (as an
\* array); a value that is not iterable throws.
Spread(v) == IF v.type = "array" THEN v ELSE Throw("TypeError")

RECURSIVE JsToString(_)
RECURSIVE ArrayJoin(_, _)
\* String(v)
JsToString(v) ==
    CASE v.type = "string" -> v.value
      [] v.type = "number" -> NumberToString(v.value)
      [] v.type = "boolean" -> IF v.value THEN "true" ELSE "false"
      [] v.type = "undefined" -> "undefined"
      [] v.type = "null" -> "null"
      [] v.type = "array" -> ArrayJoin(v.items, ",")
      [] OTHER -> "[object Object]"

\* Array.prototype.join: undefined and null elements give the empty string.
ArrayJoin(items, sep) ==
    IF items = <<>> THEN ""
    ELSE LET first == IF items[1].type \in {"undefined", "null"} THEN "" ELSE JsToString(items[1])
         IN  IF Len(items) = 1 THEN first
             ELSE first \o sep \o ArrayJoin(Tail(items), sep)

\* Array.prototype.concat with one argument: an array argument is spread, any
\* other value (undefined included) is appended as one element.
ArrayConcat(a, v) ==
    IF v.type = "array" THEN Arr(a.items \o v.items) ELSE Arr(Append(a.items, v))

----------------------------------------------------------------------------
(* The core: index.js:70-134 *)

\* processVulnerability (index.js:124-134). The receiver of .concat is
\* `vuln.cwe || []`: an array concatenates and joins; a string concatenates
\* to a string, which has no join, and any other truthy value has no concat:
\* both are a TypeError.
processVulnerability(vuln) ==
    LET title == Get(vuln, "title")
        recv == Or(Get(vuln, "cwe"), Arr(<<>>))
    IN  IF IsThrow(title) THEN title
        ELSE IF ~Truthy(title) THEN Undefined
        ELSE IF recv.type # "array" THEN Throw("TypeError")
        ELSE Obj(<<Prop("link", Get(vuln, "url")),
                   Prop("name", title),
                   Prop("package", Or(Get(vuln, "name"), Get(vuln, "module_name"))),
                   Prop("severity", Get(vuln, "severity")),
                   Prop("cwes", Str(ArrayJoin(ArrayConcat(recv, Get(vuln, "cves")).items, ", ")))>>)

RECURSIVE CollectVia(_, _, _)
\* The loop of index.js:107-109 over the remaining keys: each step pushes the
\* spread of data.vulnerabilities[pkg].via; a step that throws ends the loop.
CollectVia(vulnerabilities, keys, allVulns) ==
    IF keys = <<>> THEN Arr(allVulns)
    ELSE LET pkg == Get(vulnerabilities, keys[1])
             via == IF IsThrow(pkg) THEN pkg ELSE Get(pkg, "via")
             elems == IF IsThrow(via) THEN via ELSE Spread(via)
         IN  IF IsThrow(elems) THEN elems
             ELSE CollectVia(vulnerabilities, Tail(keys), allVulns \o elems.items)

\* The loop of index.js:111-113: the values of data.advisories in key order.
CollectAdvisories(advisories) ==
    LET keys == ForInKeys(advisories)
    IN  Arr([i \in 1..Len(keys) |-> Get(advisories, keys[i])])

\* allVulns with `if ... if` for `if ... else if`: both branches run.
allVulns_BothBranches(data) ==
    LET vulnerabilities == Get(data, "vulnerabilities")
        advisories == Get(data, "advisories")
        first == IF Truthy(vulnerabilities)
                 THEN CollectVia(vulnerabilities, ForInKeys(vulnerabilities), <<>>)
                 ELSE Arr(<<>>)
    IN  IF IsThrow(vulnerabilities) \/ IsThrow(first) THEN first
        ELSE IF Truthy(advisories) THEN Arr(first.items \o CollectAdvisories(advisories).items)
        ELSE first

\* allVulns with a plain `else` for `else if (data.advisories)`, its loop over
\* Object.values(data.advisories): an absent advisories throws.
allVulns_UnguardedAdvisories(data) ==
    LET vulnerabilities == Get(data, "vulnerabilities")
        advisories == Get(data, "advisories")
    IN  IF IsThrow(vulnerabilities) THEN vulnerabilities
        ELSE IF Truthy(vulnerabilities)
             THEN CollectVia(vulnerabilities, ForInKeys(vulnerabilities), <<>>)
        ELSE IF advisories.type \in {"undefined", "null"} THEN Throw("TypeError")
        ELSE CollectAdvisories(advisories)

\* index.js:104-114: the raw sequence allVulns, or the error thrown on the way.
allVulns(data) ==
    LET vulnerabilities == Get(data, "vulnerabilities")
        advisories == Get(data, "advisories")
    IN  IF IsThrow(vulnerabilities) THEN vulnerabilities
        ELSE IF Truthy(vulnerabilities)
             THEN CollectVia(vulnerabilities, ForInKeys(vulnerabilities), <<>>)
        ELSE IF Truthy(advisories) THEN CollectAdvisories(advisories)
        ELSE Arr(<<>>)

\* Array.prototype.filter(vuln => vuln)
FilterTruthy(items) == SelectSeq(items, Truthy)

\* index.js:116: map processVulnerability over the raw sequence, then drop the
\* falsy results; the first element whose mapping throws ends the map.
MapFilter(raw) ==
    LET mapped == [i \in 1..Len(raw) |-> processVulnerability(raw[i])]
        thrown == {i \in 1..Len(raw) : IsThrow(mapped[i])}
    IN  IF thrown # {}
        THEN mapped[CHOOSE i \in thrown : \A j \in thrown : i <= j]
        ELSE Arr(FilterTruthy(mapped))

\* getVulnerabilities (index.js:103-117)
getVulnerabilities(data) ==
    LET raw == allVulns(data)
    IN  IF IsThrow(raw) THEN raw ELSE MapFilter(raw.items)

\* countVulnerabilities comparing `(vuln.severity || "info")`: an entry
\* without severity lands in the info bucket.
countVulnerabilities_DefaultInfo(vulnerabilities, severity) ==
    Len(SelectSeq(vulnerabilities,
                  LAMBDA vuln : Or(Get(vuln, "severity"), Str("info")) = Str(severity)))

\* countVulnerabilities (index.js:94-96): strict equality with the literal.
countVulnerabilities(vulnerabilities, severity) ==
    Len(SelectSeq(vulnerabilities, LAMBDA vuln : Get(vuln, "severity") = Str(severity)))

RECURSIVE SetOf(_, _)
\* new Set(values): the distinct values in insertion order (SameValueZero, which
\* on strings and undefined is equality).
SetOf(values, acc) ==
    IF values = <<>> THEN acc
    ELSE IF \E i \in 1..Len(acc) : acc[i] = values[1]
         THEN SetOf(Tail(values), acc)
         ELSE SetOf(Tail(values), Append(acc, values[1]))

\* vulnerableDependencies without the Set: every entry counts.
vulnerableDependencies_NoSet(vulnerabilities) == Len(vulnerabilities)

\* index.js:75: [...new Set(vulnerabilities.map((vuln) => vuln.package))].length
vulnerableDependencies(vulnerabilities) ==
    Len(SetOf([i \in 1..Len(vulnerabilities) |-> Get(vulnerabilities[i], "package")], <<>>))

months == <<"January", "February", "March", "April", "May", "June", "July",
            "August", "September", "October", "November", "December">>

\* str (index.js:165-167)
str(string) == NumberToString(string)

\* checkNumLength (index.js:174-177)
checkNumLength(number) == IF Len(number) = 2 THEN number ELSE "0" \o number

\* getCurrentDate (index.js:153-158) on the clock d
getCurrentDate(d) ==
    checkNumLength(str(d.date)) \o " of " \o months[d.month + 1] \o ", "
    \o NumberToString(d.year) \o " - " \o checkNumLength(str(d.hours)) \o ":"
    \o checkNumLength(str(d.minutes)) \o ":" \o checkNumLength(str(d.seconds))

\* JSON.parse (index.js:71): the text read is the text of the pipe, which
\* parses to jsonValue (a value, or the SyntaxError of a malformed text); any
\* other text is not the document.
JSONParse(data, text, value) == IF data = text THEN value ELSE Throw("SyntaxError")

\* index.js:73-83: the payload built from the normalized list
TemplateData(vulnerabilities, d) ==
    Obj(<<Prop("vulnsFound", Num(Len(vulnerabilities))),
          Prop("vulnerableDependencies", Num(vulnerableDependencies(vulnerabilities))),
          Prop("currentDate", Str(getCurrentDate(d))),
          Prop("criticalVulns", Num(countVulnerabilities(vulnerabilities, "critical"))),
          Prop("highVulns", Num(countVulnerabilities(vulnerabilities, "high"))),
          Prop("moderateVulns", Num(countVulnerabilities(vulnerabilities, "moderate"))),
          Prop("lowVulns", Num(countVulnerabilities(vulnerabilities, "low"))),
          Prop("infoVulns", Num(countVulnerabilities(vulnerabilities, "info"))),
          Prop("vulnerabilities", Arr(vulnerabilities))>>)

\* generateHtmlTemplateContent with the parse wrapped in try/catch and an
\* empty list as the fallback.
generateHtmlTemplateContent_EmptyOnParseError(data, text, value, d) ==
    LET parsed == JSONParse(data, text, value)
        vulnerabilities == IF IsThrow(parsed) THEN Arr(<<>>) ELSE getVulnerabilities(parsed)
    IN  IF IsThrow(vulnerabilities) THEN vulnerabilities
        ELSE TemplateData(vulnerabilities.items, d)

\* generateHtmlTemplateContent (index.js:70-86) up to the call of ejs.render:
\* the payload, or the error thrown by JSON.parse or getVulnerabilities.
generateHtmlTemplateContent(data, text, value, d) ==
    LET parsed == JSONParse(data, text, value)
        vulnerabilities == IF IsThrow(parsed) THEN parsed ELSE getVulnerabilities(parsed)
    IN  IF IsThrow(vulnerabilities) THEN vulnerabilities
        ELSE TemplateData(vulnerabilities.items, d)

\* ejs.render(TEMPLATE, templateData): the document rendered from the payload
Render(payload) == [type |-> "html", data |-> payload]
----------------------------------------------------------------------------
(* The process: index.js:16-63 and 179-197 *)

OUTPUT_FILE_NAME == "audit-report.html"

\* process.cwd()
Cwd == "/work"

\* process.argv[i]: indices 0 and 1 are node and the script
ProcessArgv(i) == IF i >= 2 /\ i - 1 <= Len(argv) THEN Str(argv[i - 1]) ELSE Undefined

\* index.js:180
folderPath == Or(ProcessArgv(2), Str(Cwd))

\* index.js:181
filePath == ProcessArgv(3)

\* join (index.js:141-147)
join(paths) == IF platform = "win32" THEN ArrayJoin(paths, "\\") ELSE ArrayJoin(paths, "/")

\* getFinalPath (index.js:27-29)
getFinalPath(folder, file) ==
    IF Truthy(file) THEN join(<<folder, file>>) ELSE join(<<folder, Str(OUTPUT_FILE_NAME)>>)

\* fs.access(folderPath, F_OK): no error exactly when the folder exists
AccessOk(folder) == JsToString(folder) \in folders

\* The 'data' handler with `inputData = chunk` for `inputData += chunk`.
OnData_Overwrite ==
    /\ pc = "reading"
    /\ stdin # <<>>
    /\ inputData' = Head(stdin)
    /\ stdin' = Tail(stdin)
    /\ log' = Append(log, "data")
    /\ UNCHANGED <<argv, platform, folders, now, stdinText, jsonValue, pc, finalPath,
                   templateData, pendingWrite, files, console, uncaught, exitCode>>

\* process.stdin.on("data") (index.js:190-192)
OnData ==
    /\ pc = "reading"
    /\ stdin # <<>>
    /\ inputData' = inputData \o Head(stdin)
    /\ stdin' = Tail(stdin)
    /\ log' = Append(log, "data")
    /\ UNCHANGED <<argv, platform, folders, now, stdinText, jsonValue, pc, finalPath,
                   templateData, pendingWrite, files, console, uncaught, exitCode>>

\* process.stdin.on("end") (index.js:195-197): processInput computes the final
\* path and writeIfFolderExists issues fs.access (index.js:16-19, 37-38).
OnEnd ==
    /\ pc = "reading"
    /\ stdin = <<>>
    /\ finalPath' = getFinalPath(folderPath, filePath)
    /\ pc' = "access"
    /\ log' = Append(log, "end")
    /\ UNCHANGED <<argv, platform, folders, now, stdinText, jsonValue, stdin, inputData,
                   templateData, pendingWrite, files, console, uncaught, exitCode>>

\* The fs.access callback with an error (index.js:39-42): process.exit(1)
\* ends the process there, writeOutput is not reached.
AccessError ==
    /\ pc = "access"
    /\ ~AccessOk(folderPath)
    /\ console' = Append(console, "Error: The provided folder does not exist.")
    /\ exitCode' = 1
    /\ pc' = "exited"
    /\ log' = log \o <<"access:err", "exit:1">>
    /\ UNCHANGED <<argv, platform, folders, now, stdinText, jsonValue, stdin, inputData,
                   finalPath, templateData, pendingWrite, files, uncaught>>

\* The fs.access callback without error, when generateHtmlTemplateContent
\* throws (index.js:43, 53, 71): nothing catches the error, the process ends
\* with an uncaught exception (exit code 1) before ejs.render and fs.writeFile.
WriteOutputThrows ==
    /\ pc = "access"
    /\ AccessOk(folderPath)
    /\ LET output == generateHtmlTemplateContent(inputData, stdinText, jsonValue, now)
       IN  /\ IsThrow(output)
           /\ uncaught' = output.error
    /\ exitCode' = 1
    /\ pc' = "exited"
    /\ log' = log \o <<"access:ok", "parse", "exit:1">>
    /\ UNCHANGED <<argv, platform, folders, now, stdinText, jsonValue, stdin, inputData,
                   finalPath, templateData, pendingWrite, files, console>>

\* The fs.access callback without error (index.js:43, 52-54): the payload is
\* built and rendered and fs.writeFile is issued.
WriteOutput ==
    /\ pc = "access"
    /\ AccessOk(folderPath)
    /\ LET output == generateHtmlTemplateContent(inputData, stdinText, jsonValue, now)
       IN  /\ ~IsThrow(output)
           /\ templateData' = output
           /\ pendingWrite' = [path |-> finalPath, content |-> Render(output)]
    /\ pc' = "write"
    /\ log' = log \o <<"access:ok", "parse", "render", "writeFile">>
    /\ UNCHANGED <<argv, platform, folders, now, stdinText, jsonValue, stdin, inputData,
                   finalPath, files, console, uncaught, exitCode>>

\* The fs.writeFile callback with an error (index.js:55-58)
WriteFileError ==
    /\ pc = "write"
    /\ console' = Append(console, "Error: Unable to write to file.")
    /\ exitCode' = 1
    /\ pc' = "exited"
    /\ log' = log \o <<"write:err", "exit:1">>
    /\ UNCHANGED <<argv, platform, folders, now, stdinText, jsonValue, stdin, inputData,
                   finalPath, templateData, pendingWrite, files, uncaught>>

\* The fs.writeFile callback without error (index.js:60-61): the file holds
\* the rendered document.
WriteFileDone ==
    /\ pc = "write"
    /\ files' = {f \in files : f.path # pendingWrite.path} \cup {pendingWrite}
    /\ console' = Append(console, "Audit exported successfully!")
    /\ exitCode' = 0
    /\ pc' = "exited"
    /\ log' = log \o <<"write:ok", "exit:0">>
    /\ UNCHANGED <<argv, platform, folders, now, stdinText, jsonValue, stdin, inputData,
                   finalPath, templateData, pendingWrite, uncaught>>

Next ==
    \/ OnData
    \/ OnEnd
    \/ AccessError
    \/ WriteOutputThrows
    \/ WriteOutput
    \/ WriteFileError
    \/ WriteFileDone
----------------------------------------------------------------------------
(* The inputs *)

MaxIds == 2      \* identifiers in one cwe or cves array
MaxVulns == 2    \* advisories of a legacy document
MaxVia == 2      \* elements of one package's via
MaxPkgs == 2     \* packages of a modern document
MaxChunks == 2   \* 'data' events of one run

\* The sequences over S of length at most n
SeqsUpTo(S, n) == UNION {[1..k -> S] : k \in 0..n}

\* An own property that the document may leave out
Absent == [type |-> "absent"]
Opt(k, v) == IF v = Absent THEN <<>> ELSE <<Prop(k, v)>>

\* A raw advisory object with the given (or absent) fields
RawAdvisory(title, url, name, module_name, severity, cwe, cves) ==
    Obj(Opt("title", title) \o Opt("url", url) \o Opt("name", name)
        \o Opt("module_name", module_name) \o Opt("severity", severity)
        \o Opt("cwe", cwe) \o Opt("cves", cves))

StrArrays(S, n) == {Arr([i \in DOMAIN ids |-> Str(ids[i])]) : ids \in SeqsUpTo(S, n)}

CweValues == {Absent, Str("CWE-400")} \cup StrArrays({"CWE-1", "CWE-2"}, MaxIds)
CveValues == {Absent, Null} \cup StrArrays({"CVE-2020-1", "CVE-2021-2"}, MaxIds)
Severities == {Str("critical"), Str("high"), Str("moderate"), Str("low"), Str("info")}
SeverityValues == Severities \cup {Absent, Str("High")}

\* Advisories that differ in cwe and cves
IdEntries ==
    {RawAdvisory(title, Str("https://a/1"), Str("bar"), Absent, Str("high"), cwe, cves) :
        title \in {Absent, Str("Foo")}, cwe \in CweValues, cves \in CveValues}

\* Advisories that differ in the scalar fields
FieldEntries ==
    {RawAdvisory(title, url, name, module_name, severity, Absent, Absent) :
        title \in {Absent, Str(""), Str("T1")}, url \in {Absent, Str("https://a/1")},
        name \in {Absent, Str(""), Str("left-pad")}, module_name \in {Absent, Str("bar")},
        severity \in SeverityValues}

\* Advisories that differ in severity or in package, and two entries that map
\* to nothing
CountEntries ==
    {RawAdvisory(Str("T1"), Absent, Str("left-pad"), Absent, severity, Absent, Absent) :
        severity \in SeverityValues}
    \cup {RawAdvisory(Str("T2"), Absent, name, Str("left-pad"), severity, Absent, Absent) :
            name \in {Absent, Str("Left-Pad"), Str("bar")}, severity \in {Str("low"), Str("LOW")}}
    \cup {Str("pkgB"), RawAdvisory(Absent, Absent, Str("bar"), Absent, Str("high"), Absent, Absent)}

\* The kinds of JSON value a via element can be
KindEntries ==
    {Str("pkgB"), Str(""), Num(7), Num(0), Bool(TRUE), Bool(FALSE), Null, Arr(<<>>),
     Obj(<<>>),
     RawAdvisory(Str(""), Absent, Str("bar"), Absent, Str("high"), Absent, Absent),
     RawAdvisory(Null, Absent, Str("bar"), Absent, Str("high"), Absent, Absent),
     RawAdvisory(Str("T1"), Absent, Str("pkgA"), Absent, Str("critical"), Absent, Absent)}

AdvisoryA == RawAdvisory(Str("T1"), Absent, Str("pkgA"), Absent, Str("critical"), Absent, Absent)
AdvisoryB == RawAdvisory(Str("Foo"), Absent, Absent, Str("bar"), Str("high"),
                         Arr(<<Str("CWE-1")>>), Arr(<<Str("CVE-2020-1")>>))

PkgNames == <<"pkgA", "pkgB", "pkgC", "pkgD">>
AdvisoryIds == <<"101", "102", "103", "104">>

\* {"advisories": {"101": e1, "102": e2, ...}}
LegacyDoc(entries) ==
    Obj(<<Prop("advisories", Obj([i \in DOMAIN entries |-> Prop(AdvisoryIds[i], entries[i])]))>>)

\* A package of the modern schema: its via array, or no via at all
Packages ==
    {Obj(<<Prop("via", Arr(via))>>) : via \in SeqsUpTo({Str("pkgB"), AdvisoryA}, MaxVia)}
    \cup {Obj(<<Prop("name", Str("pkgA"))>>)}

\* {"pkgA": p1, "pkgB": p2, ...}
PackageMap(pkgs) == Obj([i \in DOMAIN pkgs |-> Prop(PkgNames[i], pkgs[i])])

IdDocs == {LegacyDoc(<<e>>) : e \in IdEntries}
FieldDocs == {LegacyDoc(<<e>>) : e \in FieldEntries}
CountDocs == {LegacyDoc(es) : es \in SeqsUpTo(CountEntries, MaxVulns)}
KindDocs ==
    {Obj(<<Prop("vulnerabilities", PackageMap(<<Obj(<<Prop("via", Arr(via))>>)>>))>>) :
        via \in SeqsUpTo(KindEntries, MaxVia)}

\* Documents that differ in which top-level keys they have
SchemaDocs ==
    {Obj(<<Prop("auditReportVersion", Num(2))>> \o Opt("vulnerabilities", vulnerabilities)
         \o Opt("advisories", advisories)) :
        vulnerabilities \in {Absent, Null, Bool(FALSE)}
                            \cup {PackageMap(pkgs) : pkgs \in SeqsUpTo(Packages, MaxPkgs)},
        advisories \in {Absent, Null,
                        Obj(<<Prop("101", AdvisoryB), Prop("102", Str("pkgB"))>>)}}

Docs == IdDocs \cup FieldDocs \cup CountDocs \cup KindDocs \cup SchemaDocs

\* The documented invocations (README.md:29-41) and their shorter forms
ArgvForms ==
    {<<>>, <<"out">>, <<"out", "report.html">>,
     <<"--folder", "out", "--name", "report.html">>,
     <<"--folder", "out", "--name", "report.html", "--title", "My Report">>}

Clocks ==
    {[date |-> 5, month |-> 0, year |-> 2024, hours |-> 9, minutes |-> 3, seconds |-> 7],
     [date |-> 25, month |-> 11, year |-> 2023, hours |-> 23, minutes |-> 59, seconds |-> 10]}

\* The text of the pipe as n chunks, each one character
Chunks(n) == [i \in 1..n |-> <<i>>]

RECURSIVE Flatten(_)
Flatten(chunks) == IF chunks = <<>> THEN <<>> ELSE Head(chunks) \o Flatten(Tail(chunks))

\* The state after the module's top level has run (index.js:1-197): nothing
\* read, nothing written. Either the invocation varies over a few documents, or
\* the document varies under the plain invocation. An empty text is no JSON.
Init ==
    /\ \/ /\ argv \in ArgvForms
          /\ platform \in {"linux", "win32"}
          /\ folders \in {{Cwd}, {Cwd, "out"}, {Cwd, "out", "--folder"}}
          /\ now \in Clocks
          /\ stdin \in {Chunks(n) : n \in 0..MaxChunks}
          /\ jsonValue \in IF stdin = <<>> THEN {Throw("SyntaxError")}
                           ELSE {Throw("SyntaxError"), Obj(<<>>), LegacyDoc(<<AdvisoryB>>)}
       \/ /\ argv = <<>>
          /\ platform = "linux"
          /\ folders = {Cwd}
          /\ now = [date |-> 5, month |-> 0, year |-> 2024, hours |-> 9, minutes |-> 3, seconds |-> 7]
          /\ stdin = Chunks(1)
          /\ jsonValue \in Docs
    /\ stdinText = Flatten(stdin)
    /\ inputData = <<>>
    /\ pc = "reading"
    /\ finalPath = ""
    /\ templateData = Undefined
    /\ pendingWrite = Undefined
    /\ files = {}
    /\ console = <<>>
    /\ uncaught = ""
    /\ exitCode = -1
    /\ log = <<>>

Spec == Init /\ [][Next]_vars
----------------------------------------------------------------------------
(* The properties *)

\* JSON.parse has been called
Parsed == \E i \in DOMAIN log : log[i] = "parse"

\* A payload has been handed to ejs.render
Rendered == templateData # Undefined

\* The normalized list of the payload
List == Get(templateData, "vulnerabilities").items

\* A number of the payload
Count(name) == Get(templateData, name).value

\* A raw entry that is an object with a truthy title
IsTitled(e) == e.type = "object" /\ Truthy(Get(e, "title"))

\* The raw entries of the document that are titled objects, in order
TitledRaw == SelectSeq(allVulns(jsonValue).items, IsTitled)

\* The identifiers of a cwe or cves field: none when it is absent
Ids(v) == IF v.type = "array" THEN v.items ELSE <<>>
SeqOrAbsent(e, k) == ~HasKey(e, k) \/ Get(e, k).type = "array"

RECURSIVE JoinIds(_)
\* The identifiers with ", " between each two of them
JoinIds(ids) ==
    IF ids = <<>> THEN ""
    ELSE IF Len(ids) = 1 THEN ids[1].value
    ELSE JoinIds(SubSeq(ids, 1, Len(ids) - 1)) \o ", " \o ids[Len(ids)].value

\* C1: for every titled advisory whose cwe and cves are arrays or absent, cwes
\* is the ", "-join of the cwe identifiers followed by the cves identifiers,
\* with no separator other than between two identifiers.
C1_CwesIsJoinOfCweThenCves ==
    Rendered =>
        /\ Len(List) = Len(TitledRaw)
        /\ \A i \in 1..Len(TitledRaw) :
              SeqOrAbsent(TitledRaw[i], "cwe") /\ SeqOrAbsent(TitledRaw[i], "cves") =>
                  Get(List[i], "cwes")
                    = Str(JoinIds(Ids(Get(TitledRaw[i], "cwe")) \o Ids(Get(TitledRaw[i], "cves"))))

Flags == {"--folder", "--name", "--title"}
FlagForm == \E i \in DOMAIN argv : argv[i] \in Flags
HasFlag(f) == \E i \in 1..(Len(argv) - 1) : argv[i] = f
FlagValue(f) == argv[(CHOOSE i \in 1..(Len(argv) - 1) : argv[i] = f) + 1]

\* The title, folder and file name the documented usage (README.md:29-41) gives
ExpectedTitle == IF HasFlag("--title") THEN FlagValue("--title") ELSE "NPM Audit Report"
ExpectedFolder ==
    IF FlagForm THEN (IF HasFlag("--folder") THEN FlagValue("--folder") ELSE Cwd)
    ELSE IF Len(argv) >= 1 THEN argv[1] ELSE Cwd
ExpectedFile ==
    IF FlagForm THEN (IF HasFlag("--name") THEN FlagValue("--name") ELSE "audit-report.html")
    ELSE IF Len(argv) >= 2 THEN argv[2] ELSE "audit-report.html"

\* C2: the payload handed to the renderer has a title, the one given on the
\* command line or "NPM Audit Report", beside the list, the counts and the
\* timestamp.
C2_PayloadHasTitle ==
    Rendered =>
        /\ \A k \in {"vulnerabilities", "vulnsFound", "vulnerableDependencies", "currentDate"} :
              HasKey(templateData, k)
        /\ HasKey(templateData, "title")
        /\ Get(templateData, "title") = Str(ExpectedTitle)

\* C3: in both documented invocation forms the report goes to <folder> joined
\* with <file>, the folder defaulting to the working directory and the file
\* name to "audit-report.html".
C3_ReportPathFromArguments ==
    pc # "reading" => finalPath = join(<<Str(ExpectedFolder), Str(ExpectedFile)>>)

\* C4: an entry that is not an object, or an object without a non-empty title,
\* maps to nothing without an error: the normalized list holds exactly the
\* titled objects, each with a non-empty name.
C4_UntitledEntriesExcludedSilently ==
    LET raw == allVulns(jsonValue)
    IN  (/\ Parsed
         /\ jsonValue.type = "object"
         /\ ~IsThrow(raw)
         /\ \A i \in 1..Len(TitledRaw) : ~IsThrow(processVulnerability(TitledRaw[i])))
        => /\ uncaught = ""
           /\ Rendered
           /\ Len(List) = Len(TitledRaw)
           /\ \A i \in 1..Len(List) :
                 /\ Truthy(Get(List[i], "name"))
                 /\ Get(List[i], "name") = Get(TitledRaw[i], "title")

\* Every package of the mapping is an object with a via array
WellFormed(v) ==
    v.type = "object" =>
        \A i \in 1..Len(v.props) :
            v.props[i].value.type = "object" /\ Get(v.props[i].value, "via").type = "array"

RECURSIVE ViaOfFirst(_, _)
\* The via elements of the first n packages, package after package
ViaOfFirst(v, n) ==
    IF n = 0 THEN <<>> ELSE ViaOfFirst(v, n - 1) \o Get(v.props[n].value, "via").items

ExpectedVia(v) == IF v.type = "object" THEN ViaOfFirst(v, Len(v.props)) ELSE <<>>

\* The values of a mapping in key order
Values(a) == IF a.type = "object" THEN [i \in 1..Len(a.props) |-> a.props[i].value] ELSE <<>>

\* C5: the presence of the `vulnerabilities` key decides the branch: with the
\* key (also beside an `advisories` key) the raw sequence is the concatenation
\* of the packages' via elements in key order and no value of `advisories`
\* contributes; only without it and with an `advisories` key is the raw
\* sequence the values of `advisories`.
C5_KeyPresenceDecidesBranch ==
    LET v == Get(jsonValue, "vulnerabilities")
        a == Get(jsonValue, "advisories")
    IN  (Parsed /\ jsonValue.type = "object" /\ WellFormed(v)) =>
            /\ HasKey(jsonValue, "vulnerabilities") => allVulns(jsonValue) = Arr(ExpectedVia(v))
            /\ (~HasKey(jsonValue, "vulnerabilities") /\ HasKey(jsonValue, "advisories"))
                  => allVulns(jsonValue) = Arr(Values(a))

\* C5, amended: exactly one branch is taken, decided by truthiness. When the
\* value of `vulnerabilities` is truthy (also when `advisories` is present) the
\* raw sequence is the concatenation, in key order of the packages, of each
\* package's via elements, and no value of `advisories` contributes; when it is
\* absent or falsy and the value of `advisories` is truthy, the raw sequence is
\* the values of `advisories` in key order; otherwise it is empty.
C5_TruthinessDecidesBranch ==
    LET v == Get(jsonValue, "vulnerabilities")
        a == Get(jsonValue, "advisories")
    IN  (Parsed /\ jsonValue.type = "object" /\ WellFormed(v)) =>
            /\ Truthy(v) => allVulns(jsonValue) = Arr(ExpectedVia(v))
            /\ (~Truthy(v) /\ Truthy(a)) => allVulns(jsonValue) = Arr(Values(a))
            /\ (~Truthy(v) /\ ~Truthy(a)) => allVulns(jsonValue) = Arr(<<>>)

\* Both keys hold values, two packages have via elements: the via branch ran.
C5_Witness ==
    LET v == Get(jsonValue, "vulnerabilities")
    IN  /\ Parsed
        /\ jsonValue.type = "object"
        /\ v.type = "object"
        /\ WellFormed(v)
        /\ Len(v.props) = 2
        /\ Get(v.props[1].value, "via").items = <<Str("pkgB"), AdvisoryA>>
        /\ Get(v.props[2].value, "via").items = <<AdvisoryA>>
        /\ Truthy(Get(jsonValue, "advisories"))
        /\ Rendered
        /\ Len(List) = 2

CountNames == <<"criticalVulns", "highVulns", "moderateVulns", "lowVulns", "infoVulns">>
SeverityLiterals == <<"critical", "high", "moderate", "low", "info">>

\* C6: a parsed object with neither key raises no error and gives the
\* zero-vulnerability report: an empty list and every count 0.
C6_NeitherKeyIsZeroReport ==
    (/\ Parsed
     /\ jsonValue.type = "object"
     /\ ~HasKey(jsonValue, "vulnerabilities")
     /\ ~HasKey(jsonValue, "advisories"))
    => /\ uncaught = ""
       /\ pc = "exited" => exitCode = 0 \/ console = <<"Error: Unable to write to file.">>
       /\ Rendered
       /\ List = <<>>
       /\ Count("vulnsFound") = 0
       /\ Count("vulnerableDependencies") = 0
       /\ \A k \in 1..5 : Count(CountNames[k]) = 0

\* A document with another key and neither of the two has been rendered.
C6_Witness ==
    /\ jsonValue = Obj(<<Prop("auditReportVersion", Num(2))>>)
    /\ Rendered
    /\ exitCode = 0

\* The entries of the list whose severity is the k-th literal
WithSeverity(k) == {i \in 1..Len(List) : Get(List[i], "severity") = Str(SeverityLiterals[k])}
SeveritySum ==
    Count("criticalVulns") + Count("highVulns") + Count("moderateVulns")
    + Count("lowVulns") + Count("infoVulns")

\* C7: each severity count is the number of entries with exactly that
\* severity; their sum is at most vulnsFound, and equal to it exactly when
\* every entry's severity is one of the five literals.
C7_SeverityCountsWithinTotal ==
    Rendered =>
        /\ Count("vulnsFound") = Len(List)
        /\ \A k \in 1..5 : Count(CountNames[k]) = Cardinality(WithSeverity(k))
        /\ SeveritySum <= Count("vulnsFound")
        /\ SeveritySum = Count("vulnsFound")
              <=> \A i \in 1..Len(List) : Get(List[i], "severity") \in Severities

\* Two entries, one without severity and one "high": counted 2, one in a bucket.
C7_Witness ==
    /\ Rendered
    /\ Len(List) = 2
    /\ Get(List[1], "severity") = Undefined
    /\ Get(List[2], "severity") = Str("high")
    /\ SeveritySum = 1
    /\ Count("highVulns") = 1

Reverse(seq) == [i \in 1..Len(seq) |-> seq[Len(seq) + 1 - i]]

\* C8: vulnerableDependencies is the number of distinct package values of the
\* list, whatever the order of the entries, and at most vulnsFound.
C8_DistinctPackages ==
    Rendered =>
        /\ Count("vulnerableDependencies")
              = Cardinality({Get(List[i], "package") : i \in 1..Len(List)})
        /\ vulnerableDependencies(Reverse(List)) = Count("vulnerableDependencies")
        /\ Count("vulnerableDependencies") <= Count("vulnsFound")

\* Two advisories of left-pad with different severities: 1 package, 2 found.
C8_Witness ==
    /\ Rendered
    /\ Len(List) = 2
    /\ Get(List[1], "package") = Str("left-pad")
    /\ Get(List[2], "package") = Str("left-pad")
    /\ Get(List[1], "severity") # Get(List[2], "severity")
    /\ Count("vulnerableDependencies") = 1
    /\ Count("vulnsFound") = 2

\* C9: when the text is not valid JSON the run is fatal: nothing is rendered,
\* fs.writeFile is not called, no file is written, success is never reported
\* and the process ends with exit code 1; there is no fallback to an empty
\* list: a run that gets past the folder check ends in JSON.parse with the
\* uncaught SyntaxError.
C9_MalformedJsonIsFatal ==
    IsThrow(jsonValue) =>
        /\ ~Rendered
        /\ pendingWrite = Undefined
        /\ files = {}
        /\ exitCode # 0
        /\ \A i \in DOMAIN console : console[i] # "Audit exported successfully!"
        /\ \A i \in DOMAIN log : log[i] \notin {"render", "writeFile", "write:ok", "exit:0"}
        /\ pc \in {"reading", "access", "exited"}
        /\ pc = "exited" => exitCode = 1
        /\ (pc = "exited" /\ AccessOk(folderPath)) => Parsed /\ uncaught = "SyntaxError"
        /\ Parsed => pc = "exited" /\ uncaught = "SyntaxError"

\* A malformed text of two chunks reached JSON.parse.
C9_Witness ==
    /\ IsThrow(jsonValue)
    /\ Len(stdinText) = 2
    /\ Parsed
    /\ uncaught = "SyntaxError"

\* The steps other than 'data' events
Steps == SelectSeq(log, LAMBDA e : e # "data")
IsPrefix(s, t) == Len(s) <= Len(t) /\ SubSeq(t, 1, Len(s)) = s
Has(step) == \E i \in DOMAIN log : log[i] = step

\* The complete runs: each step at most once, in this order
Runs ==
    {<<"end", "access:err", "exit:1">>,
     <<"end", "access:ok", "parse", "exit:1">>,
     <<"end", "access:ok", "parse", "render", "writeFile", "write:err", "exit:1">>,
     <<"end", "access:ok", "parse", "render", "writeFile", "write:ok", "exit:0">>}

\* C10: the steps of a run happen in one fixed order, each at most once;
\* nothing is parsed, rendered or written before stdin has ended with the
\* input the in-order concatenation of the chunks and the folder check has
\* succeeded; a missing folder ends with exit code 1 and no write; exit code 0
\* comes only after a write without error, a failed write gives exit code 1.
C10_StepsInFixedOrder ==
    /\ \E run \in Runs : IsPrefix(Steps, run)
    /\ \A i, j \in DOMAIN log : (log[i] = "end" /\ log[j] = "data") => j < i
    /\ pc # "reading" => stdin = <<>> /\ inputData = stdinText
    /\ (Parsed \/ Rendered \/ pendingWrite # Undefined \/ files # {})
          => Has("end") /\ Has("access:ok") /\ AccessOk(folderPath)
    /\ (pc = "exited" /\ ~AccessOk(folderPath))
          => exitCode = 1 /\ pendingWrite = Undefined /\ files = {} /\ ~Parsed
    /\ exitCode = 0
          => Has("write:ok") /\ files = {[path |-> finalPath, content |-> Render(templateData)]}
    /\ Has("write:err") => exitCode = 1 /\ files = {}
    /\ pc = "exited" <=> exitCode \in {0, 1}

\* A run of two chunks that ended with exit code 0.
C10_Witness ==
    /\ exitCode = 0
    /\ Len(stdinText) = 2
    /\ inputData = <<1, 2>>
    /\ Steps \in Runs
====
